---- MODULE Spec2Model ----
(***************************************************************************)
(* The webify_models image pipeline of BelvedereSim:                       *)
(*   scan_dir_for_images  ->  convert_to_png  ->  move_to_textures_dir     *)
(* over a small file system.  A path is a sequence of components; a        *)
(* component is a record [stem, ext] (ext = "" when the name has no        *)
(* extension).  Every file-system call of the code is one step.            *)
(***************************************************************************)
EXTENDS Integers, Sequences, FiniteSets, TLC

VARIABLES
    base_path,  \* the base_path handed to the pipeline (modelsRoot)
    files,      \* the regular files on disk: path -> content
    dirs,       \* the directories on disk: set of paths
    stack,      \* recursive_scan: the frames of the walk, innermost last
    images,     \* the Vec<Image> built by the scan, sorted once the walk is over
    idx,        \* position in images of the asset being processed
    image,      \* the Image value being threaded through the stages
    target,     \* move_to_textures_dir: new_textures_path, once computed
    pc,         \* position of the run
    results,    \* the assets the pipeline handed back, in order
    faults,     \* number of environment failures (I/O errors) so far
    failed      \* the call whose failure ended the run ("" while none has):
                \* read_dir, open, format, codec, save, cv_remove (the
                \* remove_file of convert), create_dir_all, copy, mv_remove

vars == <<base_path, files, dirs, stack, images, idx, image, target, pc, results, faults,
          failed>>

---------------------------------------------------------------------------
(* Bounds of the model *)

MaxFiles == 2       \* files in the initial tree
MaxFaults == 1      \* environment failures injected in one run

---------------------------------------------------------------------------
(* Names and paths *)

N(s, e) == [stem |-> s, ext |-> e]
D(s) == N(s, "")

\* the directories the pipeline is started on: an ordinary name, and a name
\* that line 21 of move_to_textures_dir.rs gives a meaning to
Bases == { <<D("models")>>, <<D("meshes")>> }

NoImage == [path |-> <<>>, extension |-> ""]

\* Path::file_name
FileName(p) == p[Len(p)]

\* Path::extension of the last component ("" stands for None)
Extension(p) == p[Len(p)].ext

\* Path::parent
Parent(p) == SubSeq(p, 1, Len(p) - 1)

\* Path::join with one component
Join(p, c) == Append(p, c)

\* Path::with_extension("png") replaces the extension of the last component
WithExtensionPng(p) == Join(Parent(p), N(FileName(p).stem, "png"))

\* Path::ends_with: the last Len(s) components of p are s
EndsWith(p, s) ==
    /\ Len(s) <= Len(p)
    /\ SubSeq(p, Len(p) - Len(s) + 1, Len(p)) = s

\* Path::strip_prefix(base)
StripPrefix(p, b) == SubSeq(p, Len(b) + 1, Len(p))

\* the proper and improper prefixes of p of length >= 1
Prefixes(p) == { SubSeq(p, 1, k) : k \in 1..Len(p) }

---------------------------------------------------------------------------
(* File system *)

IsFile(p) == p \in DOMAIN files
IsDir(p) == p \in dirs

Put(f, k, v) == [x \in (DOMAIN f) \cup {k} |-> IF x = k THEN v ELSE f[x]]
Del(f, k) == [x \in (DOMAIN f) \ {k} |-> f[x]]

\* fs::read_dir: the entries of a directory
Entries(d) ==
    { p \in (DOMAIN files) \cup dirs : Len(p) = Len(d) + 1 /\ Parent(p) = d }

\* an I/O call may fail for a reason outside the program
CanFail == faults < MaxFaults

---------------------------------------------------------------------------
(* Scanner: scan_dir_for_images.rs *)

\* mutant: the whitelist also takes the upper-case spelling of jpg
TEXTURE_IMAGE_TYPES_AnyCase ==
    {"tif", "tga", "tiff", "jpeg", "jpg", "gif", "png", "JPG"}

TEXTURE_IMAGE_TYPES == {"tif", "tga", "tiff", "jpeg", "jpg", "gif", "png"}

\* the bytes of an extension string, as str::cmp compares them
Bytes(s) ==
    CASE s = "tif"  -> <<116, 105, 102>>
      [] s = "tga"  -> <<116, 103, 97>>
      [] s = "tiff" -> <<116, 105, 102, 102>>
      [] s = "jpeg" -> <<106, 112, 101, 103>>
      [] s = "jpg"  -> <<106, 112, 103>>
      [] s = "gif"  -> <<103, 105, 102>>
      [] s = "png"  -> <<112, 110, 103>>
      [] s = "JPG"  -> <<74, 80, 71>>
      [] s = "md"   -> <<109, 100>>
      [] OTHER      -> <<>>

\* lexicographic order on byte strings: a < b
RECURSIVE BytesLess(_, _)
BytesLess(a, b) ==
    IF b = <<>> THEN FALSE
    ELSE IF a = <<>> THEN TRUE
    ELSE IF a[1] # b[1] THEN a[1] < b[1]
    ELSE BytesLess(Tail(a), Tail(b))

\* mutant: the comparator of line 26 with a and b the other way round
ExtLess_Ascending(a, b) == BytesLess(Bytes(b), Bytes(a))

\* a.extension.cmp(&b.extension) == Less
ExtLess(a, b) == BytesLess(Bytes(a), Bytes(b))

\* insert x into a list sorted by the comparator of line 26, after its equals
RECURSIVE InsertSorted(_, _)
InsertSorted(s, x) ==
    IF s = <<>> THEN <<x>>
    ELSE IF ExtLess(s[1].extension, x.extension)
         THEN <<x>> \o s
         ELSE <<s[1]>> \o InsertSorted(Tail(s), x)

\* mutant: line 26 is missing, the list stays in the order of the walk
SortByExtension_Unsorted(s) == s

\* images.sort_by(|a, b| b.extension.cmp(&a.extension)): stable, descending
RECURSIVE SortByExtension(_)
SortByExtension(s) ==
    IF s = <<>> THEN <<>>
    ELSE InsertSorted(SortByExtension(SubSeq(s, 1, Len(s) - 1)), s[Len(s)])

\* the frame recursive_scan is in
Top == stack[Len(stack)]
SetTodo(todo) == [stack EXCEPT ![Len(stack)].todo = todo]

\* scan_dir_for_images calls recursive_scan(dir, Vec::new()): is_dir, read_dir
ScanStart ==
    /\ pc = "start"
    /\ IF IsDir(base_path)
       THEN /\ stack' = <<[dir |-> base_path, todo |-> Entries(base_path)]>>
            /\ pc' = "scan"
       ELSE /\ stack' = <<>>
            /\ pc' = "loop"
    /\ UNCHANGED <<base_path, files, dirs, images, idx, image, target, results, faults, failed>>

\* mutant: the read error is swallowed and what was collected is returned
ScanReadFails_ReturnsPartial ==
    /\ pc \in {"start", "scan"}
    /\ CanFail
    /\ faults' = faults + 1
    /\ failed' = "read_dir"
    /\ stack' = <<>>
    /\ pc' = "loop"
    /\ UNCHANGED <<base_path, files, dirs, images, idx, image, target, results>>

\* fs::read_dir(dir)? or entry? returns Err: the error reaches line 24, panic!
ScanReadFails ==
    /\ pc \in {"start", "scan"}
    /\ CanFail
    /\ faults' = faults + 1
    /\ pc' = "panic"
    /\ UNCHANGED <<base_path, files, dirs, stack, images, idx, image, target, results>>
    /\ failed' = "read_dir"

\* one entry of the directory being read, in the order the file system gives
ScanEntry ==
    /\ pc = "scan"
    /\ \E e \in Top.todo :
         IF IsDir(e)
         THEN /\ stack' = Append(SetTodo(Top.todo \ {e}),
                                 [dir |-> e, todo |-> Entries(e)])
              /\ images' = images
         ELSE /\ stack' = SetTodo(Top.todo \ {e})
              /\ images' = IF Extension(e) \in TEXTURE_IMAGE_TYPES
                           THEN Append(images, [path |-> e, extension |-> Extension(e)])
                           ELSE images
    /\ UNCHANGED <<base_path, files, dirs, idx, image, target, pc, results, faults, failed>>

\* the directory is exhausted: recursive_scan returns Ok(images); the outermost
\* return is followed by the sort of line 26
ScanReturn ==
    /\ pc = "scan"
    /\ Top.todo = {}
    /\ stack' = SubSeq(stack, 1, Len(stack) - 1)
    /\ IF Len(stack) = 1
       THEN /\ images' = SortByExtension(images)
            /\ pc' = "loop"
       ELSE UNCHANGED <<images, pc>>
    /\ UNCHANGED <<base_path, files, dirs, idx, image, target, results, faults, failed>>

---------------------------------------------------------------------------
(* The caller: walks the returned list through the stages, one asset at a  *)
(* time, and stops at the first error result.                              *)

PipelineNext ==
    /\ pc = "loop"
    /\ IF idx <= Len(images)
       THEN /\ image' = images[idx]
            /\ pc' = "convert"
       ELSE /\ image' = NoImage
            /\ pc' = "done"
    /\ UNCHANGED <<base_path, files, dirs, stack, images, idx, target, results, faults, failed>>

PipelineCollect ==
    /\ pc = "ret"
    /\ results' = Append(results, image)
    /\ idx' = idx + 1
    /\ pc' = "loop"
    /\ UNCHANGED <<base_path, files, dirs, stack, images, image, target, faults, failed>>

---------------------------------------------------------------------------
(* Converter: convert_to_png.rs *)

\* ImageReader::open(path).format(): the format guessed from the path's
\* extension, compared without regard to case ("None" when it is not an image
\* extension)
Format(p) ==
    CASE Extension(p) \in {"jpg", "jpeg", "JPG"} -> "Jpeg"
      [] Extension(p) = "png"                   -> "Png"
      [] Extension(p) = "gif"                   -> "Gif"
      [] Extension(p) = "tga"                   -> "Tga"
      [] Extension(p) \in {"tif", "tiff"}       -> "Tiff"
      [] OTHER                                  -> "None"

\* mutant: the Tiff exclusion of line 44 is dropped
Convertible_TiffAllowed(p) == Format(p) # "None"

\* line 44: the format is known and is not Tiff
Convertible(p) == Format(p) # "None" /\ Format(p) # "Tiff"

\* what img.save writes: the decoded picture of the source, encoded as PNG
PngOf(p) == [origin |-> files[p].origin, enc |-> "png"]

\* a write that failed half way leaves a truncated file
Partial(p) == [origin |-> files[p].origin, enc |-> "partial"]

\* mutant: the skipped asset comes back with its path renamed to .png
ConvertSkip_Renames ==
    /\ pc = "convert"
    /\ image.extension = "png"
    /\ image' = [image EXCEPT !.path = WithExtensionPng(image.path)]
    /\ pc' = "move"
    /\ UNCHANGED <<base_path, files, dirs, stack, images, idx, target, results, faults, failed>>

\* convert_to_png, lines 24-27: the extension field says png, return as is
ConvertSkip ==
    /\ pc = "convert"
    /\ image.extension = "png"
    /\ pc' = "move"
    /\ UNCHANGED <<base_path, files, dirs, stack, images, idx, image, target, results, faults, failed>>

\* convert, lines 38-44 and 57-59: the file cannot be opened, or its format is
\* absent or Tiff: panic!
ConvertPanic ==
    /\ pc = "convert"
    /\ image.extension # "png"
    /\ ~IsFile(image.path) \/ ~Convertible(image.path)
    /\ pc' = "panic"
    /\ failed' = IF IsFile(image.path) THEN "format" ELSE "open"
    /\ UNCHANGED <<base_path, files, dirs, stack, images, idx, image, target, results, faults>>

\* convert, lines 38-53: open, decode, save as the sibling .png
ConvertSave ==
    /\ pc = "convert"
    /\ image.extension # "png"
    /\ IsFile(image.path)
    /\ Convertible(image.path)
    /\ IF IsDir(WithExtensionPng(image.path))
       THEN /\ pc' = "panic"
            /\ failed' = "save"
            /\ files' = files
       ELSE /\ files' = Put(files, WithExtensionPng(image.path), PngOf(image.path))
            /\ pc' = "cv_remove"
            /\ failed' = failed
    /\ UNCHANGED <<base_path, dirs, stack, images, idx, image, target, results, faults>>

\* convert, lines 38-53: the open, the decode or the save fails: panic!  A
\* failed save may have left a truncated .png behind.
ConvertIOFails ==
    /\ pc = "convert"
    /\ image.extension # "png"
    /\ IsFile(image.path)
    /\ Convertible(image.path)
    /\ CanFail
    /\ faults' = faults + 1
    /\ pc' = "panic"
    /\ \/ files' = files
       \/ /\ ~IsDir(WithExtensionPng(image.path))
          /\ files' = Put(files, WithExtensionPng(image.path), Partial(image.path))
    /\ UNCHANGED <<base_path, dirs, stack, images, idx, image, target, results>>
    /\ failed' = "codec"

\* mutant: line 55 is missing, the source is left on disk
ConvertRemove_KeepsSource ==
    /\ pc = "cv_remove"
    /\ image' = [image EXCEPT !.path = WithExtensionPng(image.path)]
    /\ pc' = "move"
    /\ UNCHANGED <<base_path, files, dirs, stack, images, idx, target, results, faults, failed>>

\* convert, lines 55-56 and 61: remove the source, point the asset at the .png
ConvertRemove ==
    /\ pc = "cv_remove"
    /\ IF IsFile(image.path)
       THEN /\ files' = Del(files, image.path)
            /\ image' = [image EXCEPT !.path = WithExtensionPng(image.path)]
            /\ pc' = "move"
            /\ failed' = failed
       ELSE /\ pc' = "error"
            /\ failed' = "cv_remove"
            /\ UNCHANGED <<files, image>>
    /\ UNCHANGED <<base_path, dirs, stack, images, idx, target, results, faults>>

\* convert, line 55: fs::remove_file fails, the ? returns the error
ConvertRemoveFails ==
    /\ pc = "cv_remove"
    /\ CanFail
    /\ faults' = faults + 1
    /\ pc' = "error"
    /\ UNCHANGED <<base_path, files, dirs, stack, images, idx, image, target, results>>
    /\ failed' = "cv_remove"

---------------------------------------------------------------------------
(* Relocator: move_to_textures_dir.rs *)

\* mutant: the meshes test of line 26 is missing
NeedsMove_TexturesOnly(p) ==
    ~EndsWith(p, <<D("materials"), D("textures"), FileName(p)>>)

\* lines 20-21
TexturesSuffix(file_name) == <<D("materials"), D("textures"), file_name>>
MeshesSuffix(file_name) == <<D("meshes"), file_name>>

\* line 26: the asset is not yet where it belongs
NeedsMove(p) ==
    /\ ~EndsWith(p, TexturesSuffix(FileName(p)))
    /\ ~EndsWith(p, MeshesSuffix(FileName(p)))

\* Path::ancestors: the path, its parent, ... down to the empty path
Ancestors(p) == [i \in 1..(Len(p) + 1) |-> SubSeq(p, 1, Len(p) + 1 - i)]

\* Iterator::nth, counted from 0
Nth(s, n) == s[n + 1]

\* mutant: the model root is taken to be the directory the asset is in
GetNewTexturesPath_Parent(img, base) ==
    Join(Join(Parent(img.path), D("materials")), D("textures"))

\* mutant: the "materials" component of line 63 is missing
GetNewTexturesPath_NoMaterials(img, base) ==
    Join(base \o SubSeq(StripPrefix(img.path, base), 1, 1), D("textures"))

\* get_new_textures_path, lines 57-66
GetNewTexturesPath(img, base) ==
    LET model_path_ancestors == Ancestors(StripPrefix(img.path, base))
        model_path == Nth(model_path_ancestors, Len(model_path_ancestors) - 2)
    IN  Join(Join(base \o model_path, D("materials")), D("textures"))

\* fs::create_dir_all succeeds unless a component of the path is a regular file
CanCreateDirAll(p) == Prefixes(p) \cap DOMAIN files = {}

\* lines 19-26 and 49: already in materials/textures or meshes, return as is
MoveSkip ==
    /\ pc = "move"
    /\ ~NeedsMove(image.path)
    /\ pc' = "ret"
    /\ UNCHANGED <<base_path, files, dirs, stack, images, idx, image, target, results, faults, failed>>

\* lines 26-29: compute the textures directory and create it
MoveCreateDir ==
    /\ pc = "move"
    /\ NeedsMove(image.path)
    /\ LET new_textures_path == GetNewTexturesPath(image, base_path) IN
         IF CanCreateDirAll(new_textures_path)
         THEN /\ dirs' = dirs \cup Prefixes(new_textures_path)
              /\ target' = new_textures_path
              /\ pc' = "mv_copy"
              /\ failed' = failed
         ELSE /\ pc' = "error"
              /\ failed' = "create_dir_all"
              /\ UNCHANGED <<dirs, target>>
    /\ UNCHANGED <<base_path, files, stack, images, idx, image, results, faults>>

\* line 29: fs::create_dir_all fails, the ? returns the error
MoveCreateDirFails ==
    /\ pc = "move"
    /\ NeedsMove(image.path)
    /\ CanFail
    /\ faults' = faults + 1
    /\ pc' = "error"
    /\ UNCHANGED <<base_path, files, dirs, stack, images, idx, image, target, results>>
    /\ failed' = "create_dir_all"

\* line 36: fs::copy(image.path, new_textures_path.join(file_name))
MoveCopy ==
    /\ pc = "mv_copy"
    /\ LET dst == Join(target, FileName(image.path)) IN
         IF IsFile(image.path) /\ ~IsDir(dst)
         THEN /\ files' = Put(files, dst, files[image.path])
              /\ pc' = "mv_remove"
              /\ failed' = failed
         ELSE /\ pc' = "error"
              /\ failed' = "copy"
              /\ files' = files
    /\ UNCHANGED <<base_path, dirs, stack, images, idx, image, target, results, faults>>

\* mutant: the result of fs::copy is ignored, the remove of line 37 follows
MoveCopyFails_NoAbort ==
    /\ pc = "mv_copy"
    /\ IsFile(image.path)
    /\ CanFail
    /\ faults' = faults + 1
    /\ pc' = "mv_remove"
    /\ files' = files
    /\ UNCHANGED <<base_path, dirs, stack, images, idx, image, target, results, failed>>

\* mutant: a failed fs::copy panics instead of returning the error
MoveCopyFails_Panics ==
    /\ pc = "mv_copy"
    /\ IsFile(image.path)
    /\ CanFail
    /\ faults' = faults + 1
    /\ pc' = "panic"
    /\ failed' = "copy"
    /\ UNCHANGED <<base_path, files, dirs, stack, images, idx, image, target, results>>

\* line 36: fs::copy fails, the ? returns the error; the copy may be truncated
MoveCopyFails ==
    /\ pc = "mv_copy"
    /\ IsFile(image.path)
    /\ CanFail
    /\ faults' = faults + 1
    /\ pc' = "error"
    /\ LET dst == Join(target, FileName(image.path)) IN
         \/ files' = files
         \/ /\ ~IsDir(dst)
            /\ files' = Put(files, dst, Partial(image.path))
    /\ UNCHANGED <<base_path, dirs, stack, images, idx, image, target, results>>
    /\ failed' = "copy"

\* mutant: line 46 is missing, the asset keeps the path of the removed source
MoveRemove_StalePath ==
    /\ pc = "mv_remove"
    /\ IsFile(image.path)
    /\ files' = Del(files, image.path)
    /\ pc' = "ret"
    /\ UNCHANGED <<base_path, dirs, stack, images, idx, image, target, results, faults, failed>>

\* lines 37-46: remove the source, point the asset at the copy
MoveRemove ==
    /\ pc = "mv_remove"
    /\ IF IsFile(image.path)
       THEN /\ files' = Del(files, image.path)
            /\ image' = [image EXCEPT !.path = Join(target, FileName(image.path))]
            /\ pc' = "ret"
            /\ failed' = failed
       ELSE /\ pc' = "error"
            /\ failed' = "mv_remove"
            /\ UNCHANGED <<files, image>>
    /\ UNCHANGED <<base_path, dirs, stack, images, idx, target, results, faults>>

\* mutant: a failed fs::remove_file panics instead of returning the error
MoveRemoveFails_Panics ==
    /\ pc = "mv_remove"
    /\ CanFail
    /\ faults' = faults + 1
    /\ pc' = "panic"
    /\ failed' = "mv_remove"
    /\ UNCHANGED <<base_path, files, dirs, stack, images, idx, image, target, results>>

\* line 37: fs::remove_file fails, the ? returns the error
MoveRemoveFails ==
    /\ pc = "mv_remove"
    /\ CanFail
    /\ faults' = faults + 1
    /\ pc' = "error"
    /\ UNCHANGED <<base_path, files, dirs, stack, images, idx, image, target, results>>
    /\ failed' = "mv_remove"

---------------------------------------------------------------------------
(* The initial trees *)

\* directories a file may sit in
SlotDirs ==
    { base_path,
      base_path \o <<D("m1")>>,
      base_path \o <<D("m1"), D("sub")>>,
      base_path \o <<D("m1"), D("materials"), D("textures")>>,
      base_path \o <<D("m1"), D("meshes")>>,
      base_path \o <<D("m2"), D("sub"), D("meshes")>>,
      base_path \o <<D("m2"), D("sub"), D("deep")>> }

\* file names
SlotNames ==
    { N("a", "jpg"), N("a", "png"), N("a", "tga"), N("a", "tif"),
      N("a", "JPG"), N("notes", "") }

Slots == { Join(d, n) : d \in SlotDirs, n \in SlotNames }

\* the subsets of S with at most k elements
RECURSIVE SubsetsUpTo(_, _)
SubsetsUpTo(S, k) ==
    IF k = 0 THEN {{}}
    ELSE LET P == SubsetsUpTo(S, k - 1)
         IN  P \cup { p \cup {x} : p \in P, x \in S }

\* a file as it is before the run
Original(p) == [origin |-> p, enc |-> "orig"]

\* the directories a tree with these files has
DirsOf(F) == {base_path} \cup UNION { Prefixes(Parent(p)) : p \in F }

Init ==
  \E b \in Bases :
    /\ base_path = b
    /\ \E F \in SubsetsUpTo(Slots, MaxFiles) :
        /\ files = [p \in F |-> Original(p)]
        /\ dirs = DirsOf(F)
        /\ stack = <<>>
        /\ images = <<>>
        /\ idx = 1
        /\ image = NoImage
        /\ target = <<>>
        /\ pc = "start"
        /\ results = <<>>
        /\ faults = 0
        /\ failed = ""

Next ==
    \/ ScanStart
    \/ ScanReadFails
    \/ ScanEntry
    \/ ScanReturn
    \/ PipelineNext
    \/ PipelineCollect
    \/ ConvertSkip
    \/ ConvertPanic
    \/ ConvertSave
    \/ ConvertIOFails
    \/ ConvertRemove
    \/ ConvertRemoveFails
    \/ MoveSkip
    \/ MoveCreateDir
    \/ MoveCreateDirFails
    \/ MoveCopy
    \/ MoveCopyFails
    \/ MoveRemove
    \/ MoveRemoveFails

Spec == Init /\ [][Next]_vars

---------------------------------------------------------------------------
(* Direct calls, as the unit tests make them: one Image built by the caller *)
(* for an existing file, whose extension field need not be the file's own   *)
(* (convert_tests builds README.md with "jpg"), handed to convert_to_png    *)
(* and then to move_to_textures_dir.                                        *)

CallExtensions(p) == {Extension(p), "jpg", "png"}

InitCall ==
  \E b \in Bases :
    /\ base_path = b
    /\ \E F \in SubsetsUpTo(Slots, MaxFiles) :
      \E p \in F :
        \E x \in CallExtensions(p) :
            /\ files = [q \in F |-> Original(q)]
            /\ dirs = DirsOf(F)
            /\ stack = <<>>
            /\ images = <<[path |-> p, extension |-> x]>>
            /\ idx = 1
            /\ image = NoImage
            /\ target = <<>>
            /\ pc = "loop"
            /\ results = <<>>
            /\ faults = 0
            /\ failed = ""

NextCall ==
    \/ PipelineNext
    \/ PipelineCollect
    \/ ConvertSkip
    \/ ConvertPanic
    \/ ConvertSave
    \/ ConvertIOFails
    \/ ConvertRemove
    \/ ConvertRemoveFails
    \/ MoveSkip
    \/ MoveCreateDir
    \/ MoveCreateDirFails
    \/ MoveCopy
    \/ MoveCopyFails
    \/ MoveRemove
    \/ MoveRemoveFails

SpecCall == InitCall /\ [][NextCall]_vars

---------------------------------------------------------------------------
(* Relocation applied twice: the caller hands the asset that                 *)
(* move_to_textures_dir returned to move_to_textures_dir once more.          *)

RelocateAgain ==
    /\ pc = "ret"
    /\ results = <<>>
    /\ results' = <<image>>
    /\ target' = <<>>
    /\ pc' = "move"
    /\ UNCHANGED <<base_path, files, dirs, stack, images, idx, image, faults, failed>>

NextAgain ==
    \/ PipelineNext
    \/ RelocateAgain
    \/ ConvertSkip
    \/ ConvertPanic
    \/ ConvertSave
    \/ ConvertIOFails
    \/ ConvertRemove
    \/ ConvertRemoveFails
    \/ MoveSkip
    \/ MoveCreateDir
    \/ MoveCreateDirFails
    \/ MoveCopy
    \/ MoveCopyFails
    \/ MoveRemove
    \/ MoveRemoveFails

SpecAgain == InitCall /\ [][NextAgain]_vars

---------------------------------------------------------------------------
(* The sort of line 26 on its own: a flat directory whose entries have all   *)
(* been read, in any order and with any whitelisted extensions; the walk     *)
(* returns and the list is sorted.                                           *)

MaxSort == 3        \* length of the list handed to the sort

\* the file name of the asset read in position i
Stems == <<"a", "b", "c", "d", "e">>
SortPath(i, x) == Join(base_path, N(Stems[i], x))

\* the lists of at most n whitelisted extensions
RECURSIVE ExtLists(_)
ExtLists(n) ==
    IF n = 0 THEN {<<>>}
    ELSE LET L == ExtLists(n - 1)
         IN  L \cup { Append(l, x) : l \in L, x \in TEXTURE_IMAGE_TYPES }

InitSort ==
  \E b \in Bases :
    /\ base_path = b
    /\ \E l \in ExtLists(MaxSort) :
        /\ files = [q \in { SortPath(i, l[i]) : i \in 1..Len(l) } |-> Original(q)]
        /\ dirs = {base_path}
        /\ stack = <<[dir |-> base_path, todo |-> {}]>>
        /\ images = [i \in 1..Len(l) |-> [path |-> SortPath(i, l[i]), extension |-> l[i]]]
        /\ idx = 1
        /\ image = NoImage
        /\ target = <<>>
        /\ pc = "scan"
        /\ results = <<>>
        /\ faults = 0
        /\ failed = ""

NextSort == ScanReturn

SpecSort == InitSort /\ [][NextSort]_vars

---------------------------------------------------------------------------
(* Properties *)

\* the positions of a sequence
Idx(s) == 1..Len(s)

\* the files on disk the scan is to find
Matching == { p \in DOMAIN files : Extension(p) \in TEXTURE_IMAGE_TYPES }

\* the states in which a stage has just handed the asset on
Handoff == pc \in {"convert", "move", "ret"}

\* C1: whenever an asset is handed from one stage to the next (scan to
\* convert, convert to relocate, relocate to the caller), its path names a
\* file that exists on disk.
C1_HandoffPathExists == Handoff => IsFile(image.path)

\* C2: the scan yields exactly one asset per matching file of the tree, and
\* once every asset has been converted and relocated no two of the returned
\* assets have the same path.
C2_OneAssetPerFile ==
    /\ (pc = "loop" /\ idx = 1) =>
          /\ { images[i].path : i \in Idx(images) } = Matching
          /\ Len(images) = Cardinality(Matching)
    /\ pc = "done" =>
          \A i, j \in Idx(results) : i # j => results[i].path # results[j].path

\* the sibling of p with the same directory and stem and the extension png
Sibling(p) == [p EXCEPT ![Len(p)] = [stem |-> p[Len(p)].stem, ext |-> "png"]]

\* where relocation is to put the asset at p: the textures directory of the
\* top-level directory of base_path that p lies under
Canonical(p) ==
    base_path \o <<p[Len(base_path) + 1]>>
              \o <<D("materials"), D("textures"), p[Len(p)]>>

\* p lies directly in a materials/textures directory, or in a meshes directory
InTextures(p) ==
    /\ Len(p) >= 3
    /\ p[Len(p) - 2] = D("materials")
    /\ p[Len(p) - 1] = D("textures")
InMeshes(p) == Len(p) >= 2 /\ p[Len(p) - 1] = D("meshes")

\* C3: a file leaves the disk only as the source of the asset in hand, in the
\* delete step of convert or of relocate, when the replacement (the sibling
\* .png holding the picture of the source, resp. the copy in the textures
\* directory) is fully written, and the replacement is still there afterwards;
\* a failed open, decode, save or copy ends the call with nothing deleted and
\* the source as it was.
C3_DeleteAfterWrite ==
    [][ /\ \A p \in (DOMAIN files) \ (DOMAIN files') :
              /\ p = image.path
              /\ \/ /\ pc = "cv_remove"
                    /\ Sibling(p) \in DOMAIN files
                    /\ files[Sibling(p)] = [origin |-> files[p].origin, enc |-> "png"]
                    /\ Sibling(p) \in DOMAIN files'
                 \/ /\ pc = "mv_remove"
                    /\ Join(target, FileName(p)) \in DOMAIN files
                    /\ files[Join(target, FileName(p))] = files[p]
                    /\ Join(target, FileName(p)) \in DOMAIN files'
        /\ (failed = "" /\ failed' \in {"open", "format", "codec", "save", "copy"}) =>
              /\ pc' \in {"panic", "error"}
              /\ DOMAIN files \subseteq DOMAIN files'
              /\ IsFile(image.path) => files'[image.path] = files[image.path]
      ]_vars

\* C3 witness: one asset went through both delete steps, and the copy of the
\* next one failed with its source still on disk.
C3_Witness ==
    /\ Len(results) = 1
    /\ results[1].path # images[1].path
    /\ images[1].extension # "png"
    /\ failed = "copy"
    /\ IsFile(image.path)

C5_ConvertRoundTrip ==
    [][ /\ ( /\ pc = "convert"
             /\ image.extension # "png"
             /\ Format(image.path) \notin {"None", "Tiff"}
             /\ failed' = "" )
           => pc' = "cv_remove"
        /\ (pc = "cv_remove" /\ failed' = "") => pc' = "move"
        /\ (pc = "cv_remove" /\ pc' = "move") =>
              /\ image.path \notin DOMAIN files'
              /\ Len(image'.path) = Len(image.path)
              /\ Parent(image'.path) = Parent(image.path)
              /\ FileName(image'.path).stem = FileName(image.path).stem
              /\ Extension(image'.path) = "png"
              /\ image'.path \in DOMAIN files'
              /\ files'[image'.path] = [origin |-> image.path, enc |-> "png"]
      ]_vars

\* C5 witness: a jpg asset has been converted and is handed to relocation.
C5_Witness ==
    /\ pc = "move"
    /\ image.extension = "jpg"
    /\ images[idx].path # image.path
    /\ IsFile(image.path)
    /\ ~IsFile(images[idx].path)

\* C6: an asset at base_path/<top>/<d1>/../<dk>/<name>, k >= 0, that is not in
\* a canonical place is relocated to base_path/<top>/materials/textures/<name>
\* whatever k is: the directory created is that one, and when relocate returns
\* the original is gone, the copy is there and the asset's path is the copy's.
C6_RelocateToModelRoot ==
    [][ Len(image.path) >= Len(base_path) + 2 =>
          /\ (pc = "move" /\ pc' = "mv_copy") =>
                Join(target', FileName(image.path)) = Canonical(image.path)
          /\ (pc = "mv_remove" /\ pc' = "ret") =>
                /\ image'.path = Canonical(image.path)
                /\ image.path \notin DOMAIN files'
                /\ image'.path \in DOMAIN files'
                /\ files'[image'.path] = files[image.path]
      ]_vars

\* C6 witness: an asset two directories below its top-level directory has
\* been moved to the textures directory of the top-level directory.
C6_Witness ==
    /\ pc = "ret"
    /\ Len(images[idx].path) = Len(base_path) + 4
    /\ images[idx].extension = "png"
    /\ ~InMeshes(images[idx].path)
    /\ ~InTextures(images[idx].path)
    /\ ~IsFile(images[idx].path)
    /\ image.path = Canonical(images[idx].path)
    /\ IsFile(image.path)

\* C7 (as claimed): a copy failure during relocation aborts the run.
C7_CopyFailureAborts == failed = "copy" => pc = "panic"

\* C7 (amended): a copy failure during relocation is handed back to the caller
\* as an error value and does not abort the process, while format-detection,
\* Tiff, decode and encode failures do abort it.
C7_CopyFailureReturned ==
    /\ failed = "copy" => pc = "error"
    /\ failed \in {"open", "format", "codec", "save"} => pc = "panic"

\* C7 witness: the copy failed.
C7_Witness == failed = "copy" /\ pc = "error" /\ faults = 1

\* C8: when the trailing delete fails, in convert after the png was written or
\* in relocate after the copy was made, the call returns an error value, the
\* process is not aborted, and the original and the new file are both on disk.
C8_DeleteFailureRecoverable ==
    /\ failed = "cv_remove" =>
          /\ pc = "error"
          /\ IsFile(image.path)
          /\ IsFile(Sibling(image.path))
          /\ files[Sibling(image.path)] = [origin |-> files[image.path].origin, enc |-> "png"]
    /\ failed = "mv_remove" =>
          /\ pc = "error"
          /\ IsFile(image.path)
          /\ IsFile(Join(target, FileName(image.path)))
          /\ files[Join(target, FileName(image.path))] = files[image.path]

\* C8 witness: the delete of convert failed for a jpg, which is now on disk
\* twice.
C8_Witness ==
    /\ failed = "cv_remove"
    /\ image.extension = "jpg"
    /\ IsFile(image.path)
    /\ IsFile(Sibling(image.path))
    /\ Sibling(image.path) # image.path

\* C9: while an asset is processed the files of the other assets are left
\* alone: an asset not yet reached is as the scan found it, and an asset
\* already processed is at its final path with its own content.
C9_OthersUntouched ==
    pc \in {"convert", "cv_remove", "move", "mv_copy", "mv_remove", "ret",
            "panic", "error"} =>
        /\ \A j \in Idx(images) : j > idx =>
              /\ IsFile(images[j].path)
              /\ files[images[j].path] = Original(images[j].path)
        /\ \A j \in Idx(results) :
              /\ IsFile(results[j].path)
              /\ files[results[j].path].origin = images[j].path
              /\ files[results[j].path].enc # "partial"

\* C10: after a run that ends without abort and without error result, no
\* non-png file the scan found is left on disk, every asset was returned, and
\* every returned path is an existing .png file in a materials/textures or a
\* meshes directory.
C10_RunEndsNormalized ==
    pc = "done" =>
        /\ \A i \in Idx(images) :
              images[i].extension # "png" => ~IsFile(images[i].path)
        /\ Len(results) = Len(images)
        /\ \A j \in Idx(results) :
              /\ IsFile(results[j].path)
              /\ Extension(results[j].path) = "png"
              /\ files[results[j].path].enc # "partial"
              /\ InTextures(results[j].path) \/ InMeshes(results[j].path)

\* C10 witness: a run over two assets ended, the first converted and moved.
C10_Witness ==
    /\ pc = "done"
    /\ Len(results) = 2
    /\ images[1].extension # "png"
    /\ ~InTextures(images[1].path)
    /\ results[1].path = Canonical(Sibling(images[1].path))
    /\ results[2].path # results[1].path

\* C11: converting an asset whose extension field is png returns it unchanged
\* (same path, same extension) and changes nothing on disk, whatever the file
\* at its path is.
C11_PngSkipIsNoOp ==
    [][ (pc = "convert" /\ image.extension = "png") =>
          /\ pc' = "move"
          /\ image' = image
          /\ files' = files
          /\ dirs' = dirs
          /\ failed' = ""
      ]_vars

\* C11 witness: an asset handed over as png whose file is not a .png file came
\* back as it was, the file untouched.
C11_Witness ==
    /\ pc = "move"
    /\ image.extension = "png"
    /\ image = images[idx]
    /\ Extension(image.path) = "jpg"
    /\ IsFile(image.path)
    /\ files[image.path] = Original(image.path)
    /\ ~IsFile(Sibling(image.path))

\* C12: relocating an asset that lies directly in a materials/textures or a
\* meshes directory, at any depth, returns it unchanged and changes nothing on
\* disk: no directory is made, no file copied or deleted.
C12_PlacedAssetIsNoOp ==
    [][ (pc = "move" /\ (InTextures(image.path) \/ InMeshes(image.path))) =>
          /\ pc' = "ret"
          /\ image' = image
          /\ files' = files
          /\ dirs' = dirs
          /\ failed' = ""
      ]_vars

\* C12 witness: an asset in a meshes directory two levels below its top-level
\* directory was returned as it was.
C12_Witness ==
    /\ pc = "ret"
    /\ InMeshes(image.path)
    /\ Len(image.path) = 5
    /\ image = images[idx]
    /\ target = <<>>
    /\ IsFile(image.path)

\* the extensions the scan is to take, spelled out
Whitelisted(x) ==
    \/ x = "tif" \/ x = "tga" \/ x = "tiff" \/ x = "jpeg"
    \/ x = "jpg" \/ x = "gif" \/ x = "png"

\* C13: when the scan returns, the list holds an asset for a file if and only
\* if the file is in the tree and its extension is, letter for letter, one of
\* tif, tga, tiff, jpeg, jpg, gif, png; each such file appears once, with its
\* own path and its own extension.
C13_ScanResult ==
    (pc = "loop" /\ idx = 1) =>
        /\ { images[i] : i \in Idx(images) } =
              { [path |-> p, extension |-> Extension(p)] :
                    p \in { q \in DOMAIN files : Whitelisted(Extension(q)) } }
        /\ \A i, j \in Idx(images) : images[i].path = images[j].path => i = j

\* C13 witness: the scan of a tree holding a .jpg beside a .JPG and nothing
\* else returned the .jpg alone.
C13_Witness ==
    /\ pc = "loop"
    /\ idx = 1
    /\ Len(images) = 1
    /\ images[1].extension = "jpg"
    /\ \E q \in DOMAIN files : Extension(q) = "JPG" /\ Parent(q) = Parent(images[1].path)

\* the place of an extension in the descending order the claim gives
Rank(x) ==
    CASE x = "tiff" -> 7
      [] x = "tif"  -> 6
      [] x = "tga"  -> 5
      [] x = "png"  -> 4
      [] x = "jpg"  -> 3
      [] x = "jpeg" -> 2
      [] x = "gif"  -> 1
      [] OTHER      -> 0

\* C14: the list the scan returns is in descending order of extension (tiff,
\* tif, tga, png, jpg, jpeg, gif), and the sort only permutes what the walk
\* found.
C14_SortedDescending ==
    [][ (pc = "scan" /\ pc' = "loop") =>
          /\ \A i, j \in Idx(images') :
                i < j => Rank(images'[i].extension) >= Rank(images'[j].extension)
          /\ Len(images') = Len(images)
          /\ { images'[i] : i \in Idx(images') } = { images[i] : i \in Idx(images) }
      ]_vars

\* C14 witness: a list read in the order gif, tiff, jpeg came back as tiff,
\* jpeg, gif.
C14_Witness ==
    /\ pc = "loop"
    /\ Len(images) = 3
    /\ images[1] = [path |-> SortPath(2, "tiff"), extension |-> "tiff"]
    /\ images[2] = [path |-> SortPath(3, "jpeg"), extension |-> "jpeg"]
    /\ images[3] = [path |-> SortPath(1, "gif"), extension |-> "gif"]

\* C15: when reading a directory fails during the walk the scan panics: no
\* list is returned, and nothing collected so far reaches the stages.
C15_ScanAbortsOnReadError ==
    failed = "read_dir" =>
        /\ pc = "panic"
        /\ image = NoImage
        /\ results = <<>>
        /\ \A p \in DOMAIN files : files[p] = Original(p)

\* C15 witness: the read failed after an asset had been collected.
C15_Witness ==
    /\ failed = "read_dir"
    /\ Len(images) >= 1
    /\ Len(stack) >= 2

\* C16: whenever convert or relocate returns Ok for an asset whose path named
\* an existing file (an asset with path .png and a non-png extension field, as
\* convert returns it, included), the returned path names an existing file.
C16_ReturnedPathExists == pc \in {"move", "ret"} => image.path \in DOMAIN files

StartsWithFile(d) == \E k \in 1..Len(d) : SubSeq(d, 1, k) \in DOMAIN files

\* the asset in hand lies directly in base_path and its file is on disk
RootAsset ==
    /\ image # NoImage
    /\ Len(image.path) = Len(base_path) + 1
    /\ IsFile(image.path)

\* relocate's verdict on an asset in base_path: the model root computed is the
\* asset's own path, the textures directory beneath it is never made, nothing
\* is copied or deleted and the asset is not returned
RootAssetFails ==
    /\ GetNewTexturesPath(image, base_path) =
          image.path \o <<D("materials"), D("textures")>>
    /\ pc \notin {"mv_copy", "mv_remove", "ret"}
    /\ failed \notin {"copy", "mv_remove"}
    /\ \A d \in dirs : ~StartsWithFile(d)

\* C19 (as claimed): for every asset that sits directly in base_path, relocate
\* computes the asset's own path as model root, cannot create the textures
\* directory beneath a regular file and returns an error, the file neither
\* copied nor deleted.
C19_RootAssetFails == RootAsset => RootAssetFails

\* C19 (amended): the same, for an asset in base_path whose path does not
\* already end with meshes/<name> or materials/textures/<name> (it does when
\* base_path is itself a directory named meshes: the asset is then returned
\* unchanged).
C19_UnplacedRootAssetFails ==
    (RootAsset /\ ~InMeshes(image.path) /\ ~InTextures(image.path)) => RootAssetFails

\* C19 witness: relocate of an asset in base_path ended in the error of
\* create_dir_all, without an injected failure, the file still in place.
C19_Witness ==
    /\ RootAsset
    /\ pc = "error"
    /\ failed = "create_dir_all"
    /\ faults = 0
    /\ files[image.path] = Original(image.path)

====
